---- MODULE Spec2Model ----
(***************************************************************************)
(* Liked-videos -> marketplace search -> similarity score pipeline.        *)
(*                                                                         *)
(* Strings are sequences of one-character strings.  An absent value        *)
(* (Python None) is the one-element sequence None, whose element is not a  *)
(* character of any alphabet used below.                                   *)
(* Floats produced by SequenceMatcher.ratio() are kept as exact fractions  *)
(* [num, den]: ratio() computes 2.0 * matches / length, and for the short  *)
(* strings used here distinct fractions stay distinct as floats.           *)
(***************************************************************************)
EXTENDS Integers, Sequences, FiniteSets, TLC

VARIABLES
    pc,          \* position of main() / of the harness
    args,        \* parsed command line: cookie, channels, match_threshold, html
    likes,       \* list returned by fetch_likes
    filtered,    \* filter_by_channels(likes, args.channels)
    idx,         \* number of items the search loop has taken from filtered
    results,     \* rows appended by the search loop of main()
    printed,     \* kind of the status line printed for each processed item
    requests,    \* search URLs for which an HTTP GET was issued, in order
    responses,   \* what the network answered to each of these requests
    outcomes,    \* dicts returned by bandcamp_search, in order
    fetches,     \* number of yt-dlp playlist extractions attempted
    stderr,      \* messages written to standard error
    exitcode,    \* "running", or the exit status "0" / "1" once main() has ended
    report,      \* whether results.html was written, and with which rows
    call,        \* arguments of the function applied by a function harness
    ret          \* its return value

vars == <<pc, args, likes, filtered, idx, results, printed, requests, responses,
          outcomes, fetches, stderr, exitcode, report, call, ret>>

mainvars == <<args, likes, filtered, idx, results, printed, requests, responses,
              outcomes, fetches, stderr, exitcode, report>>

---------------------------------------------------------------------------
(* Bounds *)

MaxLen == 3

MaxCand == 2

MaxLikes == 2

MaxChannels == 2

MaxCalls == 2

---------------------------------------------------------------------------
(* Strings *)

None == <<"None">>

Alphabet == {"a", "B", " "}

Whitespace == {" "}

Strings(n) == UNION {[1..k -> Alphabet] : k \in 0..n}

\* Python truthiness of an optional string: None and "" are falsy.
Truthy(s) == s # None /\ s # <<>>

Min(S) == CHOOSE x \in S : \A y \in S : x <= y

Max(S) == CHOOSE x \in S : \A y \in S : x >= y

\* str.casefold / str.lower on one character.
FoldChar(c) ==
    CASE c = "A" -> "a"
      [] c = "B" -> "b"
      [] c = "Y" -> "y"
      [] c = "N" -> "n"
      [] OTHER -> c

casefold(s) == [i \in 1..Len(s) |-> FoldChar(s[i])]

\* str.strip(): drop leading and trailing whitespace.
strip(s) ==
    LET keep == {i \in 1..Len(s) : s[i] \notin Whitespace}
    IN  IF keep = {} THEN <<>> ELSE SubSeq(s, Min(keep), Max(keep))

dash_stripped(text) ==
    strip([i \in 1..Len(text) |-> IF text[i] = "-" THEN " " ELSE text[i]])

---------------------------------------------------------------------------
(* difflib.SequenceMatcher(None, a, b).ratio(), for len(b) < 200 (below    *)
(* that length the automatic junk heuristic is off and every character of  *)
(* b is indexed).                                                          *)

\* Length of the common run of a and b starting at (i, j) inside the window.
RECURSIVE RunLen(_, _, _, _, _, _)
RunLen(a, b, i, j, ahi, bhi) ==
    IF i <= ahi /\ j <= bhi /\ a[i] = b[j]
    THEN 1 + RunLen(a, b, i + 1, j + 1, ahi, bhi)
    ELSE 0

\* find_longest_match on a[alo..ahi], b[blo..bhi] (1-based, inclusive): the
\* longest common block; among the longest, the one starting earliest in a,
\* and among those the one starting earliest in b.  size = 0 if none.
find_longest_match(a, b, alo, ahi, blo, bhi) ==
    LET P    == (alo..ahi) \X (blo..bhi)
        best == IF P = {} THEN 0
                ELSE Max({RunLen(a, b, p[1], p[2], ahi, bhi) : p \in P})
        C    == {p \in P : RunLen(a, b, p[1], p[2], ahi, bhi) = best}
        i    == Min({p[1] : p \in C})
        j    == Min({p[2] : p \in {q \in C : q[1] = i}})
    IN  IF best = 0 THEN [i |-> alo, j |-> blo, size |-> 0]
        ELSE [i |-> i, j |-> j, size |-> best]

\* Sum of the sizes of get_matching_blocks(): the longest block, then the
\* same to its left and to its right.
RECURSIVE matches(_, _, _, _, _, _)
matches(a, b, alo, ahi, blo, bhi) ==
    LET m == find_longest_match(a, b, alo, ahi, blo, bhi)
    IN  IF m.size = 0 THEN 0
        ELSE matches(a, b, alo, m.i - 1, blo, m.j - 1)
             + m.size
             + matches(a, b, m.i + m.size, ahi, m.j + m.size, bhi)

Zero == [num |-> 0, den |-> 1]

One == [num |-> 1, den |-> 1]

\* Variant of ratio that divides by the length of the longer string.
ratio_by_longer(a, b) ==
    LET length == Len(a) + Len(b)
    IN  IF length = 0 THEN One
        ELSE [num |-> 2 * matches(a, b, 1, Len(a), 1, Len(b)),
              den |-> Max({Len(a), Len(b)})]

\* ratio(): 2.0 * matches / (len(a) + len(b)), and 1.0 when both are empty.
ratio(a, b) ==
    LET length == Len(a) + Len(b)
    IN  IF length = 0 THEN One
        ELSE [num |-> 2 * matches(a, b, 1, Len(a), 1, Len(b)), den |-> length]

\* Comparisons of floats held as fractions.
GE(x, y) == x.num * y.den >= y.num * x.den

EQ(x, y) == x.num * y.den = y.num * x.den

---------------------------------------------------------------------------
(* Scoring *)

\* " ".join(parts) for a list of strings.
RECURSIVE join(_)
join(parts) ==
    IF parts = <<>> THEN <<>>
    ELSE IF Len(parts) = 1 THEN parts[1]
    ELSE parts[1] \o <<" ">> \o join(Tail(parts))

\* filter(None, parts): keep the truthy elements.
filter_none(parts) == SelectSeq(parts, Truthy)

\* Variant of search.score_match that does not casefold the candidate.
search_score_match_nofold(youtube_title, match_title, match_artist) ==
    IF ~Truthy(match_title) /\ ~Truthy(match_artist) THEN Zero
    ELSE LET base      == casefold(youtube_title)
             candidate == strip(join(filter_none(<<match_artist, match_title>>)))
         IN  ratio(base, candidate)

\* search.score_match(youtube_title, match_title, match_artist)
search_score_match(youtube_title, match_title, match_artist) ==
    IF ~Truthy(match_title) /\ ~Truthy(match_artist) THEN Zero
    ELSE LET base      == casefold(youtube_title)
             candidate == casefold(strip(join(filter_none(<<match_artist, match_title>>))))
         IN  ratio(base, candidate)

\* The candidate "match" of main.bandcamp_search is None or a dict with the
\* keys title, artist and url, whose values are never None; None is held as
\* the record NoMatch.
NoMatch == [title |-> None, artist |-> None, url |-> None]

\* main.score_match(youtube_title, bc_match)
main_score_match(youtube_title, bc_match) ==
    IF bc_match = NoMatch THEN Zero
    ELSE LET a == casefold(youtube_title)
             b == casefold(strip(bc_match.artist \o <<" ">> \o bc_match.title))
         IN  ratio(a, b)

---------------------------------------------------------------------------
(* Function harness for the two scoring functions: Init draws the          *)
(* arguments, one action applies search.score_match, the other             *)
(* main.score_match to the dict built from the same candidate.             *)

Idle ==
    /\ args = None /\ likes = <<>> /\ filtered = <<>> /\ idx = 0
    /\ results = <<>>
    /\ printed = <<>> /\ requests = <<>> /\ responses = <<>> /\ outcomes = <<>>
    /\ fetches = 0 /\ stderr = <<>> /\ exitcode = "running"
    /\ report = [written |-> FALSE, rows |-> <<>>]

Artists == {None, <<>>, <<"a">>, <<"B", " ">>}

\* Candidate titles tried against the source title t: absent, t itself, and
\* every short string.
ScoreCalls ==
    UNION {{[youtube_title |-> t, match_title |-> mt, match_artist |-> ma] :
                mt \in Strings(MaxCand) \cup {None, t}, ma \in Artists} :
           t \in Strings(MaxLen)}

\* The dict main.bandcamp_search builds for a found result: a missing
\* heading or subheading is the empty string.
AsDict(match_title, match_artist) ==
    [title  |-> IF match_title = None THEN <<>> ELSE match_title,
     artist |-> IF match_artist = None THEN <<>> ELSE match_artist,
     url    |-> None]

ScoreInit ==
    /\ pc = "call"
    /\ call \in ScoreCalls
    /\ ret = None
    /\ Idle

SearchScoreCall ==
    /\ pc = "call"
    /\ ret' = [fn |-> "search.score_match",
               value |-> search_score_match(call.youtube_title, call.match_title,
                                            call.match_artist)]
    /\ pc' = "return"
    /\ UNCHANGED <<call, mainvars>>

MainScoreCall ==
    /\ pc = "call"
    /\ ret' = [fn |-> "main.score_match",
               value |-> main_score_match(call.youtube_title,
                                          AsDict(call.match_title, call.match_artist))]
    /\ pc' = "return"
    /\ UNCHANGED <<call, mainvars>>

ScoreNext == SearchScoreCall \/ MainScoreCall

SpecScore == ScoreInit /\ [][ScoreNext]_vars

---------------------------------------------------------------------------
(* Channel filter *)

\* {c.casefold(): c for c in channels}: the keys of the dict.
chan_set(channels) == {casefold(channels[i]) : i \in 1..Len(channels)}

\* main.filter_by_channels: the loop appends the items that pass the test.
RECURSIVE main_filter_loop(_, _, _)
main_filter_loop(items, keys, acc) ==
    IF items = <<>> THEN acc
    ELSE LET item     == Head(items)
             uploader == item.uploader
         IN  IF uploader # <<>> /\ casefold(uploader) \in keys
             THEN main_filter_loop(Tail(items), keys, Append(acc, item))
             ELSE main_filter_loop(Tail(items), keys, acc)

main_filter_by_channels(ls, channels) ==
    main_filter_loop(ls, chan_set(channels), <<>>)

\* Variant of the test that compares the uploader as written.
yt_keep_nocasefold(like, candidates) ==
    like.uploader # <<>> /\ like.uploader \in candidates

\* youtube_client.py 61: the condition of the comprehension.
yt_keep(like, candidates) ==
    like.uploader # <<>> /\ casefold(like.uploader) \in candidates

\* youtube_client.filter_by_channels: a list comprehension.
yt_filter_by_channels(ls, channels) ==
    LET candidates == chan_set(channels)
        keep(like) == yt_keep(like, candidates)
    IN  SelectSeq(ls, keep)

Names == {<<>>, <<"a">>, <<"A">>, <<"a", "B">>}

FilterItems ==
    {[title |-> t, uploader |-> u, url |-> None] :
        t \in {<<"a">>, <<"B">>}, u \in Names}

SeqsUpTo(S, n) == UNION {[1..k -> S] : k \in 0..n}

FilterInit ==
    /\ pc = "call"
    /\ call \in {[likes |-> l, channels |-> c] :
                    l \in SeqsUpTo(FilterItems, MaxLikes),
                    c \in SeqsUpTo(Names, MaxChannels) \ {<<>>}}
    /\ ret = None
    /\ Idle

MainFilterCall ==
    /\ pc = "call"
    /\ ret' = [fn |-> "main.filter_by_channels",
               value |-> main_filter_by_channels(call.likes, call.channels)]
    /\ pc' = "return"
    /\ UNCHANGED <<call, mainvars>>

YtFilterCall ==
    /\ pc = "call"
    /\ ret' = [fn |-> "youtube_client.filter_by_channels",
               value |-> yt_filter_by_channels(call.likes, call.channels)]
    /\ pc' = "return"
    /\ UNCHANGED <<call, mainvars>>

FilterNext == MainFilterCall \/ YtFilterCall

SpecFilter == FilterInit /\ [][FilterNext]_vars

---------------------------------------------------------------------------
(* The marketplace search.  A response of the network to one GET is a      *)
(* record: kind "transport" (connection failure) or "timeout", with the    *)
(* text of the exception, or kind "http" with a status and, for a 2xx      *)
(* status, the parsed document: whether an li.searchresult exists and,     *)
(* for the first one, its <a> (absent, without href, or the href), its     *)
(* .heading text and its .subhead text (absent or the raw text).           *)

NoHref == <<"no href">>

NoDoc == [found |-> FALSE, link |-> None, heading |-> None, subhead |-> None]

Base == <<"https://bandcamp.com">>

\* urllib.parse.quote_plus on one character.
QuoteChar(c) ==
    CASE c = " " -> "+"
      [] c = "&" -> "%26"
      [] OTHER -> c

quote_plus(q) == [i \in 1..Len(q) |-> QuoteChar(q[i])]

SearchUrl(query) == <<"https://bandcamp.com/search?q=">> \o quote_plus(query)

\* urllib.parse.urljoin(base, href): an empty reference is the base, an
\* absolute reference replaces it, a path is appended to the origin.
urljoin(base, href) ==
    IF href = <<>> THEN base
    ELSE IF href[1] \in {"https://", "http://"} THEN href
    ELSE base \o href

\* Element.get_text(strip=True)
get_text(el) == strip(el)

\* response.raise_for_status() raises unless the status is 2xx; a transport
\* failure or timeout raises inside client.get.
Raises(resp) == resp.kind # "http" \/ resp.status \notin 200..299

\* str(exc)
ExcText(resp) ==
    IF resp.kind = "http" THEN <<"HTTPStatusError">> ELSE resp.msg

\* models.SearchResult(query=..., search_url=...): the other fields default.
SearchResult(query, search_url) ==
    [query |-> query, search_url |-> search_url, match_title |-> None,
     match_artist |-> None, match_url |-> None, score |-> Zero, error |-> None]

\* Variant of search_track that fills in the fallback URL before the request.
search_track_url_first(query, resp) ==
    LET search_url == SearchUrl(query)
        result     == [SearchResult(query, search_url) EXCEPT !.match_url = search_url]
        sent       == <<search_url>>
        first      == resp.doc
        href       == IF first.link # None /\ first.link # NoHref
                      THEN first.link ELSE None
    IN  IF Raises(resp)
        THEN [result |-> [result EXCEPT !.error = ExcText(resp)], sent |-> sent]
        ELSE IF ~first.found
        THEN [result |-> result, sent |-> sent]
        ELSE [result |->
                [result EXCEPT
                    !.match_title  = IF first.heading # None
                                     THEN get_text(first.heading) ELSE None,
                    !.match_artist = IF first.subhead # None
                                     THEN get_text(first.subhead) ELSE None,
                    !.match_url    = IF Truthy(href)
                                     THEN urljoin(Base, href) ELSE search_url],
              sent |-> sent]

\* Variant of search_track that reports an empty result list as an error.
search_track_empty_is_error(query, resp) ==
    LET search_url == SearchUrl(query)
        result     == SearchResult(query, search_url)
        sent       == <<search_url>>
        first      == resp.doc
        href       == IF first.link # None /\ first.link # NoHref
                      THEN first.link ELSE None
    IN  IF Raises(resp)
        THEN [result |-> [result EXCEPT !.error = ExcText(resp)], sent |-> sent]
        ELSE IF ~first.found
        THEN [result |-> [result EXCEPT !.error = <<"no results">>], sent |-> sent]
        ELSE [result |->
                [result EXCEPT
                    !.match_title  = IF first.heading # None
                                     THEN get_text(first.heading) ELSE None,
                    !.match_artist = IF first.subhead # None
                                     THEN get_text(first.subhead) ELSE None,
                    !.match_url    = IF Truthy(href)
                                     THEN urljoin(Base, href) ELSE search_url],
              sent |-> sent]

\* Variant of search_track that gives up on a result without a heading.
search_track_needs_heading(query, resp) ==
    LET search_url == SearchUrl(query)
        result     == SearchResult(query, search_url)
        sent       == <<search_url>>
        first      == resp.doc
        href       == IF first.link # None /\ first.link # NoHref
                      THEN first.link ELSE None
    IN  IF Raises(resp)
        THEN [result |-> [result EXCEPT !.error = ExcText(resp)], sent |-> sent]
        ELSE IF ~first.found \/ first.heading = None
        THEN [result |-> result, sent |-> sent]
        ELSE [result |->
                [result EXCEPT
                    !.match_title  = get_text(first.heading),
                    !.match_artist = IF first.subhead # None
                                     THEN get_text(first.subhead) ELSE None,
                    !.match_url    = IF Truthy(href)
                                     THEN urljoin(Base, href) ELSE search_url],
              sent |-> sent]

\* BandcampSearch.search_track(query) against the response resp: the
\* returned SearchResult and the GETs issued.
search_track(query, resp) ==
    LET search_url == SearchUrl(query)
        result     == SearchResult(query, search_url)
        sent       == <<search_url>>
        first      == resp.doc
        href       == IF first.link # None /\ first.link # NoHref
                      THEN first.link ELSE None
    IN  IF Raises(resp)
        THEN [result |-> [result EXCEPT !.error = ExcText(resp)], sent |-> sent]
        ELSE IF ~first.found
        THEN [result |-> result, sent |-> sent]
        ELSE [result |->
                [result EXCEPT
                    !.match_title  = IF first.heading # None
                                     THEN get_text(first.heading) ELSE None,
                    !.match_artist = IF first.subhead # None
                                     THEN get_text(first.subhead) ELSE None,
                    !.match_url    = IF Truthy(href)
                                     THEN urljoin(Base, href) ELSE search_url],
              sent |-> sent]

\* Variant of bandcamp_search that repeats the request once after a failure.
bandcamp_search_retry(query, resp) ==
    LET url   == SearchUrl(query)
        first == resp.doc
        sent  == IF Raises(resp) THEN <<url, url>> ELSE <<url>>
    IN  IF Raises(resp)
        THEN [result |-> [ok |-> FALSE, error |-> ExcText(resp),
                          match |-> NoMatch, url |-> url],
              sent |-> sent]
        ELSE IF ~first.found
        THEN [result |-> [ok |-> TRUE, error |-> None, match |-> NoMatch, url |-> url],
              sent |-> sent]
        ELSE [result |->
                [ok |-> TRUE, error |-> None, url |-> url,
                 match |->
                    [title  |-> IF first.heading # None
                                THEN get_text(first.heading) ELSE <<>>,
                     artist |-> IF first.subhead # None
                                THEN get_text(first.subhead) ELSE <<>>,
                     url    |-> IF first.link # None /\ first.link # NoHref
                                THEN urljoin(Base, first.link) ELSE url]],
              sent |-> sent]

\* main.bandcamp_search(query) against the response resp: the returned dict
\* (a missing key reads as None through dict.get) and the GETs issued.
bandcamp_search(query, resp) ==
    LET url   == SearchUrl(query)
        sent  == <<url>>
        first == resp.doc
    IN  IF Raises(resp)
        THEN [result |-> [ok |-> FALSE, error |-> ExcText(resp),
                          match |-> NoMatch, url |-> url],
              sent |-> sent]
        ELSE IF ~first.found
        THEN [result |-> [ok |-> TRUE, error |-> None, match |-> NoMatch, url |-> url],
              sent |-> sent]
        ELSE [result |->
                [ok |-> TRUE, error |-> None, url |-> url,
                 match |->
                    [title  |-> IF first.heading # None
                                THEN get_text(first.heading) ELSE <<>>,
                     artist |-> IF first.subhead # None
                                THEN get_text(first.subhead) ELSE <<>>,
                     url    |-> IF first.link # None /\ first.link # NoHref
                                THEN urljoin(Base, first.link) ELSE url]],
              sent |-> sent]

ExcTexts == {<<"ConnectError">>, <<>>}

Hrefs == {None, NoHref, <<>>, <<"/track/x">>, <<"https://", "x.bandcamp.com/track/x">>}

Headings == {None, <<>>, <<" ", "a", " ", "B">>}

Subheads == {None, <<"B", " ">>}

Failures ==
    {[kind |-> k, msg |-> m, status |-> 0, doc |-> NoDoc] :
        k \in {"transport", "timeout"}, m \in ExcTexts}
    \cup {[kind |-> "http", msg |-> <<>>, status |-> st, doc |-> NoDoc] :
            st \in {404, 500}}

Pages ==
    {[kind |-> "http", msg |-> <<>>, status |-> 200, doc |-> d] :
        d \in {NoDoc} \cup
              {[found |-> TRUE, link |-> l, heading |-> h, subhead |-> sh] :
                  l \in Hrefs, h \in Headings, sh \in Subheads}}

Responses == Failures \cup Pages

Queries == {<<"a", " ", "B">>, <<"a", "&">>}

(* Harness for search_track with a client double: each call appends the    *)
(* GETs it issued to requests, the double's answer to responses and the    *)
(* returned SearchResult to outcomes.                                      *)

SearchInit ==
    /\ pc = "call"
    /\ call = None
    /\ ret = None
    /\ Idle

SearchTrackCall ==
    /\ pc = "call"
    /\ Len(outcomes) < MaxCalls
    /\ \E query \in Queries, resp \in Responses :
         LET r == search_track(query, resp)
         IN  /\ call' = [query |-> query]
             /\ ret' = r.result
             /\ requests' = requests \o r.sent
             /\ responses' = Append(responses, resp)
             /\ outcomes' = Append(outcomes, r.result)
    /\ UNCHANGED <<pc, args, likes, filtered, idx, results, printed, fetches,
                   stderr, exitcode, report>>

SearchNext == SearchTrackCall

SpecSearch == SearchInit /\ [][SearchNext]_vars

---------------------------------------------------------------------------
(* main(): one action per step of the run.                                 *)

Files == {<<"cookies.txt">>}

\* os.path.isfile(os.path.expanduser(path)) for a path without "~".
isfile(path) == path \in Files

\* youtube_client.validate_cookie_path(cookie): the path, None when no
\* cookie was given, or FileNotFoundError.
validate_cookie_path(cookie) ==
    IF ~Truthy(cookie) THEN [raised |-> FALSE, value |-> None]
    ELSE IF ~isfile(cookie) THEN [raised |-> TRUE, value |-> None]
    ELSE [raised |-> FALSE, value |-> cookie]

Cookies == {None, <<>>, <<"missing.txt">>, <<"cookies.txt">>}

Thresholds == {Zero, [num |-> 1, den |-> 2], [num |-> 3, den |-> 4]}

ChannelArgs == {<< <<"a">> >>, << <<"x">> >>}

MainItems ==
    {[title |-> <<"a", "-", "B">>, uploader |-> <<"A">>, url |-> <<"https://youtu.be/1">>],
     [title |-> <<"a">>, uploader |-> <<"a">>, url |-> None],
     [title |-> <<"B">>, uploader |-> <<"x">>, url |-> <<"https://youtu.be/3">>]}

Page(link, heading, subhead) ==
    [kind |-> "http", msg |-> <<>>, status |-> 200,
     doc |-> [found |-> TRUE, link |-> link, heading |-> heading, subhead |-> subhead]]

\* The answers of the network tried in the search loop.
PipelineResponses ==
    {[kind |-> "transport", msg |-> <<"ConnectError">>, status |-> 0, doc |-> NoDoc],
     [kind |-> "http", msg |-> <<>>, status |-> 500, doc |-> NoDoc],
     [kind |-> "http", msg |-> <<>>, status |-> 200, doc |-> NoDoc],
     Page(<<"/track/x">>, <<" ", "a", " ", "B">>, None),
     Page(None, <<"a">>, None),
     Page(<<"https://", "x.bandcamp.com/track/x">>, None, <<"B", " ">>),
     Page(NoHref, None, None)}

\* What the user types at the prompt.
Answers == {<<"y">>, <<" ", "Y", "e", "s">>, <<"n">>, <<"N", "o", " ">>, <<>>, <<"y", "e">>}

Init ==
    /\ pc = "start"
    /\ args \in [cookie : Cookies, channels : ChannelArgs,
                 match_threshold : Thresholds, html : BOOLEAN]
    /\ likes = <<>> /\ filtered = <<>> /\ idx = 0 /\ results = <<>>
    /\ printed = <<>> /\ requests = <<>> /\ responses = <<>> /\ outcomes = <<>>
    /\ fetches = 0 /\ stderr = <<>> /\ exitcode = "running"
    /\ report = [written |-> FALSE, rows |-> <<>>]
    /\ call = None /\ ret = None

\* Variant of ValidateCookie that reports the missing file and goes on.
ValidateCookie_no_exit ==
    /\ pc = "start"
    /\ IF Truthy(args.cookie) /\ ~isfile(args.cookie)
       THEN stderr' = Append(stderr, "Cookie file not found")
       ELSE UNCHANGED stderr
    /\ pc' = "fetch"
    /\ UNCHANGED <<args, likes, filtered, idx, results, printed, requests,
                   responses, outcomes, fetches, exitcode, report, call, ret>>

\* main.py 162-168: the cookie file is checked before anything is fetched.
ValidateCookie ==
    /\ pc = "start"
    /\ IF Truthy(args.cookie) /\ ~isfile(args.cookie)
       THEN /\ stderr' = Append(stderr, "Cookie file not found")
            /\ exitcode' = "1"
            /\ pc' = "done"
       ELSE /\ pc' = "fetch"
            /\ UNCHANGED <<stderr, exitcode>>
    /\ UNCHANGED <<args, likes, filtered, idx, results, printed, requests,
                   responses, outcomes, fetches, report, call, ret>>

\* main.py 170-174: fetch_likes either raises or returns the likes.
FetchLikes ==
    /\ pc = "fetch"
    /\ fetches' = fetches + 1
    /\ \/ /\ stderr' = Append(stderr, "Failed to fetch likes via yt-dlp")
          /\ exitcode' = "1"
          /\ pc' = "done"
          /\ UNCHANGED likes
       \/ /\ likes' \in SeqsUpTo(MainItems, MaxLikes)
          /\ pc' = "filter"
          /\ UNCHANGED <<stderr, exitcode>>
    /\ UNCHANGED <<args, filtered, idx, results, printed, requests, responses,
                   outcomes, report, call, ret>>

\* Variant of Filter that goes on to the searches without the confirmation.
Filter_no_prompt ==
    /\ pc = "filter"
    /\ filtered' = main_filter_by_channels(likes, args.channels)
    /\ IF filtered' = <<>>
       THEN pc' = "done" /\ exitcode' = "0"
       ELSE pc' = "loop" /\ UNCHANGED exitcode
    /\ UNCHANGED <<args, likes, idx, results, printed, requests, responses,
                   outcomes, fetches, stderr, report, call, ret>>

\* main.py 176-184: filter, and return when nothing is left.
Filter ==
    /\ pc = "filter"
    /\ filtered' = main_filter_by_channels(likes, args.channels)
    /\ IF filtered' = <<>>
       THEN pc' = "done" /\ exitcode' = "0"
       ELSE pc' = "prompt" /\ UNCHANGED exitcode
    /\ UNCHANGED <<args, likes, idx, results, printed, requests, responses,
                   outcomes, fetches, stderr, report, call, ret>>

True == <<"True">>

False == <<"False">>

YesAnswers == {<<"y">>, <<"y", "e", "s">>}

\* main.py 105-112 and 186-187: one pass of the loop of prompt_yes_no.
\* While the loop asks again, call holds the answer just read; when the
\* function returns, ret holds its value and the answer is gone with the
\* frame.
Prompt ==
    /\ pc = "prompt"
    /\ \E answer \in Answers :
         LET resp == casefold(strip(answer))
         IN  IF resp \in YesAnswers
             THEN /\ pc' = "loop" /\ ret' = True /\ call' = None
                  /\ UNCHANGED exitcode
             ELSE IF resp \in {<<"n">>, <<"n", "o">>}
             THEN /\ pc' = "done" /\ ret' = False /\ call' = None
                  /\ exitcode' = "0"
             ELSE /\ call' = answer
                  /\ UNCHANGED <<pc, ret, exitcode>>
    /\ UNCHANGED <<args, likes, filtered, idx, results, printed, requests,
                   responses, outcomes, fetches, stderr, report>>

\* Variant of the comparison that needs the score to exceed the threshold.
meets_threshold_strict(score, match_threshold) ==
    score.num * match_threshold.den > match_threshold.num * score.den

\* main.py 220: score >= args.match_threshold
meets_threshold(score, match_threshold) == GE(score, match_threshold)

\* main.py 192-237: the body of the loop for one item and one answer of the
\* network: the row appended, the status line printed, the dict returned by
\* bandcamp_search and the GETs issued.
LoopBody(item, resp, match_threshold) ==
    LET raw_title == item.title
        query     == dash_stripped(raw_title)
        searched  == bandcamp_search(query, resp)
        result    == searched.result
        match     == result.match
        score     == main_score_match(raw_title, match)
        row(bc_title, sc, bc_url) ==
            [uploader |-> item.uploader, bc_title |-> bc_title, score |-> sc,
             bc_url |-> bc_url, yt_url |-> item.url]
        line(kind, url) == [kind |-> kind, title |-> raw_title, url |-> url]
    IN  IF ~result.ok
        THEN [row |-> row(None, Zero, result.url),
              line |-> line("error", result.url),
              result |-> result, sent |-> searched.sent]
        ELSE IF match = NoMatch
        THEN [row |-> row(None, Zero, result.url),
              line |-> line("no results", result.url),
              result |-> result, sent |-> searched.sent]
        ELSE IF meets_threshold(score, match_threshold)
        THEN [row |-> row(match.title, score, match.url),
              line |-> line("MATCH", match.url),
              result |-> result, sent |-> searched.sent]
        ELSE [row |-> row(match.title, score, match.url),
              line |-> line("below threshold", result.url),
              result |-> result, sent |-> searched.sent]

\* Variant of LoopStep that puts the new row in front of the others.
LoopStep_prepend ==
    /\ pc = "loop"
    /\ idx < Len(filtered)
    /\ idx' = idx + 1
    /\ \E resp \in PipelineResponses :
         LET b == LoopBody(filtered[idx + 1], resp, args.match_threshold)
         IN  /\ results' = <<b.row>> \o results
             /\ printed' = Append(printed, b.line)
             /\ outcomes' = Append(outcomes, b.result)
             /\ requests' = requests \o b.sent
             /\ responses' = Append(responses, resp)
    /\ UNCHANGED <<pc, args, likes, filtered, fetches, stderr, exitcode, report,
                   call, ret>>

\* Variant of LoopStep in which a failed request ends the run: the
\* exception of client.get is not caught.
LoopStep_raise ==
    /\ pc = "loop"
    /\ idx < Len(filtered)
    /\ idx' = idx + 1
    /\ \E resp \in PipelineResponses :
         LET b == LoopBody(filtered[idx + 1], resp, args.match_threshold)
         IN  /\ requests' = requests \o b.sent
             /\ responses' = Append(responses, resp)
             /\ IF Raises(resp)
                THEN /\ pc' = "done" /\ exitcode' = "1"
                     /\ UNCHANGED <<results, printed, outcomes>>
                ELSE /\ results' = Append(results, b.row)
                     /\ printed' = Append(printed, b.line)
                     /\ outcomes' = Append(outcomes, b.result)
                     /\ UNCHANGED <<pc, exitcode>>
    /\ UNCHANGED <<args, likes, filtered, fetches, stderr, report, call, ret>>

\* main.py 191-237: one iteration of "for item in filtered".
LoopStep ==
    /\ pc = "loop"
    /\ idx < Len(filtered)
    /\ idx' = idx + 1
    /\ \E resp \in PipelineResponses :
         LET b == LoopBody(filtered[idx + 1], resp, args.match_threshold)
         IN  /\ results' = Append(results, b.row)
             /\ printed' = Append(printed, b.line)
             /\ outcomes' = Append(outcomes, b.result)
             /\ requests' = requests \o b.sent
             /\ responses' = Append(responses, resp)
    /\ UNCHANGED <<pc, args, likes, filtered, fetches, stderr, exitcode, report,
                   call, ret>>

\* main.py 239-245: after the loop, the report is written when --html was
\* given; a failure to write or open it is printed, not raised.
LoopExit ==
    /\ pc = "loop"
    /\ idx = Len(filtered)
    /\ IF args.html
       THEN \/ report' = [written |-> TRUE, rows |-> results] /\ UNCHANGED stderr
            \/ /\ stderr' = Append(stderr, "Failed to write or open results.html")
               /\ UNCHANGED report
       ELSE UNCHANGED <<report, stderr>>
    /\ pc' = "done"
    /\ exitcode' = "0"
    /\ UNCHANGED <<args, likes, filtered, idx, results, printed, requests,
                   responses, outcomes, fetches, call, ret>>

Next ==
    \/ ValidateCookie
    \/ FetchLikes
    \/ Filter
    \/ Prompt
    \/ LoopStep
    \/ LoopExit

Spec == Init /\ [][Next]_vars

---------------------------------------------------------------------------
(* query_utils.py: QueryNormalizer.sanitize_search_query *)

MaxQuery == 5

Openers == {"(", "[", "{"}

Closers == {")", "]", "}"}

\* The members of the class [0-9A-Za-z] among the characters of the model.
Alnum == {"a", "b", "A", "B", "0", "9"}

QueryAlphabet == {"(", ")", "]", "a", "b", " ", "-"}

QueryStrings == UNION {[1..k -> QueryAlphabet] : k \in 0..MaxQuery}

\* re.sub(r"[\(\[\{][^\)\]\}]*[\)\]\}]", " ", query), scanning from position
\* i: a match starts at an opener that has some closer to its right and ends
\* at the first such closer, whatever lies in between; the scan resumes after
\* the match.  An opener with no closer to its right is copied.
RECURSIVE sub_brackets(_, _)
sub_brackets(query, i) ==
    IF i > Len(query) THEN <<>>
    ELSE LET ends == {j \in (i + 1)..Len(query) : query[j] \in Closers}
         IN  IF query[i] \in Openers /\ ends # {}
             THEN <<" ">> \o sub_brackets(query, Min(ends) + 1)
             ELSE <<query[i]>> \o sub_brackets(query, i + 1)

\* re.sub(r"[^0-9A-Za-z\s]", " ", cleaned)
sub_noise(cleaned) ==
    [i \in 1..Len(cleaned) |->
        IF cleaned[i] \in Alnum \cup Whitespace THEN cleaned[i] ELSE " "]

\* str.split(): the maximal runs of non-whitespace characters.
RECURSIVE split(_)
split(s) ==
    IF s = <<>> THEN <<>>
    ELSE IF s[1] \in Whitespace THEN split(Tail(s))
    ELSE LET stops == {j \in 1..Len(s) : s[j] \in Whitespace}
             n     == IF stops = {} THEN Len(s) + 1 ELSE Min(stops)
         IN  <<SubSeq(s, 1, n - 1)>> \o split(SubSeq(s, n, Len(s)))

sanitize_search_query(query) ==
    LET cleaned == sub_noise(sub_brackets(query, 1))
    IN  strip(join(split(cleaned)))

SanitizeInit ==
    /\ pc = "call"
    /\ call \in [query : QueryStrings]
    /\ ret = None
    /\ Idle

SanitizeCall ==
    /\ pc = "call"
    /\ ret' = [fn |-> "sanitize_search_query",
               value |-> sanitize_search_query(call.query)]
    /\ pc' = "return"
    /\ UNCHANGED <<call, mainvars>>

SanitizeNext == SanitizeCall

SpecSanitize == SanitizeInit /\ [][SanitizeNext]_vars

---------------------------------------------------------------------------
(* report.py: HtmlReport._hue_for_score and main.py: hue_for_score *)

MaxDen == 7

\* The scores tried: the fractions num/den from -1 to 2.
Scores ==
    UNION {{[num |-> n, den |-> d] : n \in (0 - d)..(2 * d)} : d \in 1..MaxDen}

\* A score that is not a number (None), kept apart from the fractions.
NoScore == [num |-> 0, den |-> 0]

\* min(x, y) and max(x, y) of two floats.
fmin(x, y) == IF GE(x, y) THEN y ELSE x

fmax(x, y) == IF GE(x, y) THEN x ELSE y

\* int(k * x) for an int k and a float x: the product, truncated towards zero.
int_times(k, x) ==
    IF x.num >= 0 THEN (k * x.num) \div x.den
    ELSE 0 - ((k * (0 - x.num)) \div x.den)

\* The variant that scales without clamping.
hue_unclamped(score) == int_times(120, score)

\* HtmlReport._hue_for_score(score)
HtmlReport_hue_for_score(score) ==
    LET clamped == fmax(Zero, fmin(One, score))
    IN  int_times(120, clamped)

\* hue_for_score(score) of main.render_html: float(score) raises for None
\* and the score is then taken as 0.0.
hue_for_score(score) ==
    LET s0 == IF score = NoScore THEN Zero ELSE score
        s  == fmax(Zero, fmin(One, s0))
    IN  int_times(120, s)

\* The harness applies the function to two scores, like the assertions of
\* test_hue_for_score.
HueInit ==
    /\ pc = "call"
    /\ call \in [score : Scores \cup {NoScore}, other : Scores]
    /\ ret = None
    /\ Idle

\* min(1.0, None) raises TypeError.
ReportHueCall ==
    /\ pc = "call"
    /\ ret' = IF call.score = NoScore
              THEN [fn |-> "_hue_for_score", raised |-> TRUE, value |-> 0,
                    other |-> 0]
              ELSE [fn |-> "_hue_for_score", raised |-> FALSE,
                    value |-> HtmlReport_hue_for_score(call.score),
                    other |-> HtmlReport_hue_for_score(call.other)]
    /\ pc' = "return"
    /\ UNCHANGED <<call, mainvars>>

MainHueCall ==
    /\ pc = "call"
    /\ ret' = [fn |-> "hue_for_score", raised |-> FALSE,
               value |-> hue_for_score(call.score),
               other |-> hue_for_score(call.other)]
    /\ pc' = "return"
    /\ UNCHANGED <<call, mainvars>>

HueNext == ReportHueCall \/ MainHueCall

SpecHue == HueInit /\ [][HueNext]_vars

---------------------------------------------------------------------------
(* Properties *)

\* prompt_yes_no returned True.
AnsweredYes == ret = True

\* The query main() builds for the i-th filtered item.
QueryOf(i) == dash_stripped(filtered[i].title)

NoCandidate(r) ==
    r.match_title = None /\ r.match_artist = None /\ r.match_url = None

\* C1: the search loop appends one row per item it has taken, row i carries
\* the uploader and the source URL of filtered item i, and once the loop has
\* run to its end there are exactly as many rows as filtered items, whatever
\* the outcomes of the searches were.
C1_OrderPreserved ==
    /\ idx <= Len(filtered)
    /\ Len(results) = idx
    /\ \A i \in 1..Len(results) :
         /\ results[i].uploader = filtered[i].uploader
         /\ results[i].yt_url = filtered[i].url
    /\ (pc = "done" /\ AnsweredYes) => Len(results) = Len(filtered)

C1_Witness ==
    /\ pc = "done"
    /\ Len(results) = 2
    /\ Len(filtered) = 2
    /\ Len(printed) = 2
    /\ filtered[1].uploader # filtered[2].uploader
    /\ printed[1].kind = "error"
    /\ printed[2].kind = "MATCH"

\* C2: a request that fails (transport failure, timeout, non-2xx status)
\* does not end the run: the failure is held in the dict returned for that
\* item, the item has its row, the process has not exited with an error,
\* and the loop goes on (its next step is enabled) until every filtered
\* item has been searched and has a row.
C2_FailureIsData ==
    \A i \in 1..Len(responses) :
        Raises(responses[i]) =>
            /\ i <= Len(outcomes)
            /\ ~outcomes[i].ok
            /\ outcomes[i].error = ExcText(responses[i])
            /\ i <= Len(results)
            /\ results[i].uploader = filtered[i].uploader
            /\ results[i].yt_url = filtered[i].url
            /\ exitcode # "1"
            /\ \/ pc = "loop" /\ (idx < Len(filtered) => ENABLED LoopStep)
               \/ /\ pc = "done"
                  /\ Len(requests) = Len(filtered)
                  /\ Len(results) = Len(filtered)

C2_Witness ==
    /\ pc = "done"
    /\ Len(results) = 2
    /\ Len(responses) = 2
    /\ Len(printed) = 2
    /\ Raises(responses[1])
    /\ responses[1].kind = "transport"
    /\ ~Raises(responses[2])
    /\ printed[2].kind = "MATCH"

\* C3: every SearchResult returned by search_track with error set (not
\* None) has match_title, match_artist and match_url None and score 0, and
\* its search_url is the URL built from the query, the one the GET was
\* issued for.
C3_ErrorOutcomeIsBare ==
    \A i \in 1..Len(outcomes) :
        outcomes[i].error # None =>
            /\ NoCandidate(outcomes[i])
            /\ EQ(outcomes[i].score, Zero)
            /\ outcomes[i].search_url = SearchUrl(outcomes[i].query)
            /\ i <= Len(requests)
            /\ outcomes[i].search_url = requests[i]

C3_Witness ==
    /\ Len(outcomes) = 2
    /\ Len(responses) = 2
    /\ responses[1].kind = "timeout"
    /\ outcomes[1].error # None
    /\ responses[2].kind = "http" /\ responses[2].status = 404
    /\ outcomes[2].error # None
    /\ ret = outcomes[2]

\* C4: for every exchange of the run, when the request succeeds and the
\* page has no li.searchresult, search_track returns no candidate, no error
\* and score 0, bandcamp_search returns ok with no match and the line
\* printed is "no results"; when the request fails, search_track returns
\* error set, bandcamp_search returns not ok and the line printed is
\* "error": the two outcomes and the two lines differ.
C4_NoResultsIsNotAnError ==
    \A i \in 1..Len(responses) :
        LET r == search_track(QueryOf(i), responses[i]).result
        IN  /\ (~Raises(responses[i]) /\ ~responses[i].doc.found) =>
                  /\ NoCandidate(r)
                  /\ r.error = None
                  /\ EQ(r.score, Zero)
                  /\ outcomes[i].ok
                  /\ outcomes[i].match = NoMatch
                  /\ printed[i].kind = "no results"
            /\ Raises(responses[i]) =>
                  /\ r.error # None
                  /\ ~outcomes[i].ok
                  /\ printed[i].kind = "error"

C4_Witness ==
    /\ Len(printed) = 2
    /\ Len(responses) = 2
    /\ ~Raises(responses[1]) /\ ~responses[1].doc.found
    /\ printed[1].kind = "no results"
    /\ Raises(responses[2])
    /\ printed[2].kind = "error"

\* C5: the line printed for an item is MATCH exactly when the search did
\* not fail, the candidate has a url and the score is at least the
\* threshold.
C5_MatchedIff ==
    /\ Len(printed) = Len(results) /\ Len(outcomes) = Len(results)
    /\ \A i \in 1..Len(results) :
         (printed[i].kind = "MATCH") <=>
             /\ outcomes[i].ok
             /\ outcomes[i].match.url # None
             /\ GE(results[i].score, args.match_threshold)

\* A score equal to a positive threshold is a MATCH, and a candidate with a
\* url and a lower score is not.
C5_Witness ==
    /\ Len(results) = 2
    /\ Len(printed) = 2
    /\ Len(outcomes) = 2
    /\ args.match_threshold.num > 0
    /\ printed[1].kind = "MATCH"
    /\ EQ(results[1].score, args.match_threshold)
    /\ printed[2].kind = "below threshold"
    /\ outcomes[2].match.url # None
    /\ ~GE(results[2].score, args.match_threshold)

\* C6: the loop issues exactly one GET per item it has taken, for the
\* dash-stripped title of that item, whether the request fails, finds
\* nothing or finds a candidate; search_track and bandcamp_search each issue
\* exactly that one GET for a query and an answer.
C6_OneRequestPerItem ==
    /\ Len(requests) = idx
    /\ Len(responses) = idx
    /\ \A i \in 1..idx :
         /\ requests[i] = SearchUrl(QueryOf(i))
         /\ bandcamp_search(QueryOf(i), responses[i]).sent = <<SearchUrl(QueryOf(i))>>
         /\ search_track(QueryOf(i), responses[i]).sent = <<SearchUrl(QueryOf(i))>>
    /\ (pc = "done" /\ AnsweredYes) => Len(requests) = Len(filtered)

C6_Witness ==
    /\ pc = "done"
    /\ Len(filtered) = 2
    /\ Len(responses) = 2
    /\ Raises(responses[1])
    /\ ~Raises(responses[2]) /\ ~responses[2].doc.found
    /\ Len(requests) = 2

\* No network activity: the likes were not fetched and nothing was searched.
NoNetwork == fetches = 0 /\ requests = <<>>

\* C7 as stated: whenever --cookie is given with a path that is not an
\* existing file, the run attempts no network activity and, once ended,
\* has exited with an error.
C7_AnyCookiePath ==
    (args.cookie # None /\ ~isfile(args.cookie)) =>
        /\ NoNetwork
        /\ pc = "done" => exitcode = "1"

\* C7: whenever --cookie is given with a non-empty path that is not an
\* existing file, the run stops at the cookie check: it reports the missing
\* file, exits with status 1 and neither fetches the likes nor searches;
\* validate_cookie_path raises for the same argument.
C7_NonEmptyCookiePath ==
    (args.cookie # None /\ args.cookie # <<>> /\ ~isfile(args.cookie)) =>
        /\ NoNetwork
        /\ pc \in {"start", "done"}
        /\ pc = "done" => exitcode = "1" /\ stderr = <<"Cookie file not found">>
        /\ validate_cookie_path(args.cookie).raised

C7_Witness ==
    /\ args.cookie = <<"missing.txt">>
    /\ pc = "done"
    /\ exitcode = "1"
    /\ fetches = 0

\* Two characters are the same letter in either case.
SameLetter(c, d) == c = d \/ {c, d} \in {{"a", "A"}, {"b", "B"}}

\* Case-insensitive exact equality of two strings.
CIEqual(x, y) ==
    Len(x) = Len(y) /\ \A k \in 1..Len(x) : SameLetter(x[k], y[k])

Wanted(item) ==
    \E k \in 1..Len(call.channels) : CIEqual(item.uploader, call.channels[k])

WantedNonEmpty(item) == item.uploader # <<>> /\ Wanted(item)

\* C8 as stated: filter_by_channels returns, in their order, exactly the
\* items whose uploader equals a channel name case-insensitively.
C8_ExactlyTheEqual ==
    pc = "return" => ret.value = SelectSeq(call.likes, Wanted)

\* C8: filter_by_channels (both implementations) returns, in their order,
\* exactly the items whose uploader is not empty and equals a channel name
\* case-insensitively.
C8_ExactlyTheEqualNonEmpty ==
    pc = "return" => ret.value = SelectSeq(call.likes, WantedNonEmpty)

\* The uploader containing the channel name is left out, the one differing
\* in case is kept.
C8_Witness ==
    /\ pc = "return"
    /\ call.channels = << <<"a">> >>
    /\ Len(call.likes) = 2
    /\ call.likes[1].uploader = <<"a", "B">>
    /\ call.likes[2].uploader = <<"A">>
    /\ ret.value = <<call.likes[2]>>

\* C9 as stated: search.score_match(t, t, None) is 1.0 for every string t.
C9_SelfScoreIsOne ==
    (/\ pc = "return"
     /\ ret.fn = "search.score_match"
     /\ call.match_title = call.youtube_title
     /\ call.match_artist = None)
        => EQ(ret.value, One)

\* C9: search.score_match(t, t, None) is 1.0 for every non-empty string t
\* that neither starts nor ends with whitespace.
C9_SelfScoreIsOneTrimmed ==
    (/\ pc = "return"
     /\ ret.fn = "search.score_match"
     /\ call.match_title = call.youtube_title
     /\ call.match_artist = None
     /\ call.youtube_title # <<>>
     /\ Head(call.youtube_title) \notin Whitespace
     /\ call.youtube_title[Len(call.youtube_title)] \notin Whitespace)
        => EQ(ret.value, One)

C9_Witness ==
    /\ pc = "return"
    /\ ret.fn = "search.score_match"
    /\ call.youtube_title = <<"B", " ", "a">>
    /\ call.match_title = call.youtube_title
    /\ call.match_artist = None
    /\ EQ(ret.value, One)

\* C10: the value returned by search.score_match is a float between 0.0 and
\* 1.0, both included.
C10_ScoreInUnitInterval ==
    (pc = "return" /\ ret.fn = "search.score_match") =>
        /\ ret.value.den > 0
        /\ 0 <= ret.value.num
        /\ ret.value.num <= ret.value.den

C10_Witness ==
    /\ pc = "return"
    /\ ret.fn = "search.score_match"
    /\ Truthy(call.match_title)
    /\ Truthy(call.match_artist)
    /\ 0 < ret.value.num
    /\ ret.value.num < ret.value.den

\* The closer that ends the fragment opened just before position j, nesting
\* counted and the kind of delimiter ignored; 0 if the fragment is not closed.
RECURSIVE MatchOf(_, _, _)
MatchOf(s, j, depth) ==
    IF j > Len(s) THEN 0
    ELSE IF s[j] \in Openers THEN MatchOf(s, j + 1, depth + 1)
    ELSE IF s[j] \in Closers
         THEN IF depth = 1 THEN j ELSE MatchOf(s, j + 1, depth - 1)
    ELSE MatchOf(s, j + 1, depth)

\* The positions of s that lie between an opener and the closer that ends it.
Enclosed(s) ==
    {i \in 1..Len(s) :
        \E o \in 1..(i - 1) : s[o] \in Openers /\ MatchOf(s, o + 1, 1) > i}

\* C11: the result of sanitize consists of alphanumeric characters and single
\* spaces, with no space at either end and no two spaces in a row, and no
\* text that was enclosed in brackets in the input (nested, mismatched or
\* unbalanced brackets included) appears in it: an alphanumeric character that
\* occurs in the input only inside bracketed fragments does not occur in the
\* result.
C11_NoBracketedTextSurvives ==
    (pc = "return" /\ ret.fn = "sanitize_search_query") =>
        LET s   == call.query
            out == ret.value
            outside == {s[k] : k \in (1..Len(s)) \ Enclosed(s)}
        IN  /\ \A i \in 1..Len(out) : out[i] \in Alnum \cup {" "}
            /\ out # <<>> => out[1] # " " /\ out[Len(out)] # " "
            /\ \A i \in 1..(Len(out) - 1) : ~(out[i] = " " /\ out[i + 1] = " ")
            /\ \A i \in Enclosed(s) :
                   (s[i] \in Alnum /\ s[i] \notin outside) =>
                       \A k \in 1..Len(out) : out[k] # s[i]

\* The first result has no a.artcont element, or the element has no href.
LinkMissing(doc) == doc.link = None \/ doc.link = NoHref

\* The i-th exchange succeeded and its page has a first search result.
FoundAt(i) == ~Raises(responses[i]) /\ responses[i].doc.found

\* The fields of the first result that search_track takes from the elements
\* the page does have, and error left unset.
PresentFieldsExtracted(i) ==
    LET doc == responses[i].doc
        r   == outcomes[i]
    IN  /\ Truthy(doc.link) /\ ~LinkMissing(doc) =>
               r.match_url = urljoin(Base, doc.link)
        /\ doc.heading # None => r.match_title = strip(doc.heading)
        /\ doc.subhead # None => r.match_artist = strip(doc.subhead)
        /\ r.error = None

\* C12 as stated: when the first search result is found and its link, its
\* heading or its subheading element is missing, the returned match_url,
\* match_title or match_artist respectively is None, the fields of the
\* elements that are there are extracted, and error is None.
C12_MissingElementIsAbsentField ==
    \A i \in 1..Len(outcomes) :
        FoundAt(i) =>
            /\ LinkMissing(responses[i].doc) => outcomes[i].match_url = None
            /\ responses[i].doc.heading = None => outcomes[i].match_title = None
            /\ responses[i].doc.subhead = None => outcomes[i].match_artist = None
            /\ PresentFieldsExtracted(i)

\* C12, amended: when the first search result is found, a missing heading
\* or subheading gives match_title or match_artist None from search_track
\* and the empty string in the dict of bandcamp_search; a missing link gives
\* the URL of the search itself as match_url, in both; the fields of the
\* elements that are there are extracted, and error is None.
C12_MissingLinkFallsBackToSearchUrl ==
    \A i \in 1..Len(outcomes) :
        FoundAt(i) =>
            LET doc == responses[i].doc
                r   == outcomes[i]
                d   == bandcamp_search(r.query, responses[i]).result
            IN  /\ LinkMissing(doc) =>
                       /\ r.match_url = r.search_url
                       /\ r.match_url = requests[i]
                       /\ d.match.url = d.url
                       /\ d.url = r.search_url
                /\ doc.heading = None =>
                       r.match_title = None /\ d.match.title = <<>>
                /\ doc.subhead = None =>
                       r.match_artist = None /\ d.match.artist = <<>>
                /\ PresentFieldsExtracted(i)
                /\ d.ok /\ d.error = None

\* A result with neither link nor heading but a subheading, then one with a
\* heading and a link but no subheading.
C12_Witness ==
    /\ Len(outcomes) = 2
    /\ Len(responses) = 2
    /\ FoundAt(1)
    /\ responses[1].doc.link = None
    /\ responses[1].doc.heading = None
    /\ outcomes[1].match_artist = <<"B">>
    /\ outcomes[1].match_url = outcomes[1].search_url
    /\ FoundAt(2)
    /\ responses[2].doc.link = <<"/track/x">>
    /\ responses[2].doc.subhead = None
    /\ outcomes[2].match_title = <<"a", " ", "B">>
    /\ outcomes[2].match_artist = None
    /\ outcomes[2].error = None

\* C13: for every numeric score the hue returned, by _hue_for_score and by
\* hue_for_score of main alike, is an integer from 0 to 120; it is 0 for a
\* score <= 0, 120 for a score >= 1 and floor(120 * score) in between; and
\* of two scores the larger never gets the smaller hue.
C13_HueClampedAndMonotone ==
    (pc = "return" /\ ret.fn \in {"_hue_for_score", "hue_for_score"}
        /\ ~ret.raised /\ call.score # NoScore) =>
        LET s == call.score
            h == ret.value
        IN  /\ h \in 0..120
            /\ s.num <= 0 => h = 0
            /\ s.num >= s.den => h = 120
            /\ (0 < s.num /\ s.num < s.den) =>
                   /\ h * s.den <= 120 * s.num
                   /\ 120 * s.num < (h + 1) * s.den
            /\ GE(call.other, s) => ret.other >= h
            /\ GE(s, call.other) => h >= ret.other

\* _hue_for_score(3/7) is 51, short of 360/7, and the score 2 gets 120.
C13_Witness ==
    /\ pc = "return"
    /\ ret.fn = "_hue_for_score"
    /\ call.score = [num |-> 3, den |-> 7]
    /\ call.other = [num |-> 2, den |-> 1]
    /\ ret.value = 51
    /\ ret.other = 120

\* prompt_yes_no has asked at least once: it has returned, or it holds an
\* answer it did not recognise.
Prompted == ret # None \/ call # None

\* C14: in main() a search request is issued, and a row or a report
\* produced, only after prompt_yes_no has returned True; with an empty
\* filtered list the run neither prompts nor searches; an answer that is
\* neither yes nor no leaves the run at the prompt with nothing searched; and
\* once the answer is no the run is over with exit status 0, no search
\* request, no row and no report.
C14_NoSearchBeforeYes ==
    /\ (requests # <<>> \/ idx > 0 \/ results # <<>> \/ report.written
            \/ pc = "loop") => ret = True
    /\ filtered = <<>> => ~Prompted /\ requests = <<>>
    /\ call # None =>
           /\ pc = "prompt" /\ ret = None /\ exitcode = "running"
           /\ requests = <<>>
           /\ casefold(strip(call)) \notin YesAnswers \cup {<<"n">>, <<"n", "o">>}
    /\ ret = False =>
           /\ pc = "done" /\ exitcode = "0"
           /\ requests = <<>> /\ idx = 0 /\ results = <<>>
           /\ ~report.written

\* Two searches made and the report written, after the answer yes.
C14_Witness ==
    /\ pc = "done"
    /\ ret = True
    /\ Len(filtered) = 2
    /\ Len(requests) = 2
    /\ report.written

\* C15: main.score_match and search.score_match return the same score for
\* the same source title and candidate, where a candidate field that is None
\* for search.score_match is the empty string in the dict given to
\* main.score_match, and where no candidate at all is a falsy dict.
C15_ScorersAgree ==
    /\ (pc = "return" /\ ret.fn = "main.score_match") =>
           EQ(ret.value,
              search_score_match(call.youtube_title, call.match_title,
                                 call.match_artist))
    /\ (pc = "return" /\ ret.fn = "search.score_match"
            /\ call.match_title = None /\ call.match_artist = None) =>
           EQ(ret.value, main_score_match(call.youtube_title, NoMatch))

====
